---- MODULE Spec2Model ----
(***************************************************************************)
(* Job-application tracker: the relational store (application, skills,     *)
(* application_skill_set), the application service built on it             *)
(* (create / update / delete / import-from-link with skill               *)
(* reconciliation) and the REST handlers in front of the service.          *)
(*                                                                         *)
(* Every SQL statement is one atomic step of the store.  The service       *)
(* functions are sequences of statements with no transaction around them:  *)
(* a statement that throws ends the call and keeps what the earlier        *)
(* statements wrote.                                                       *)
(***************************************************************************)
EXTENDS Integers, Sequences, FiniteSets, TLC

(***************************************************************************)
(* Bounds                                                                  *)
(***************************************************************************)
\* applications ever inserted (AUTOINCREMENT never reuses an id)
MaxApps == 2
\* applications ever inserted where every skill string is tried on them
ReconcileApps == 1
\* requests one client sends, one after the other, while another client sends its own
MaxServed == 1
\* length of a comma-separated skill string, in characters
MaxSkillLen == 3
\* length of the text the model answers with, in tokens
MaxTextLen == 3
\* seconds the clock behind datetime('now') advances
MaxTime == 1
\* the longest raw text handed to parseGeminiJson on its own
\* the callers of initDatabase that may be in flight together
MaxCallers == 3
\* the detail requests the page sends in one behaviour
MaxRequests == 3
MaxRawLen == 5

(***************************************************************************)
(* JavaScript values.  A value carries its type; strings whose characters  *)
(* matter (names, skill lists) are sequences of one-character strings.     *)
(***************************************************************************)
Undefined == [t |-> "undefined"]
Null == [t |-> "null"]
Str(s) == [t |-> "string", v |-> s]
Num(n) == [t |-> "number", v |-> n]

IsString(x) == x.t = "string"
\* a ?? b
Coalesce(a, b) == IF a = Undefined \/ a = Null THEN b ELSE a
\* !x
Falsy(x) ==
  \/ x = Undefined
  \/ x = Null
  \/ (x.t = "string" /\ x.v = <<>>)
  \/ (x.t = "number" /\ x.v = 0)

\* all sequences over S of length at most n
RECURSIVE SeqsUpTo(_, _)
SeqsUpTo(S, n) ==
  IF n = 0 THEN {<<>>}
  ELSE LET shorter == SeqsUpTo(S, n - 1)
       IN shorter \cup {Append(s, c) : s \in {x \in shorter : Len(x) = n - 1}, c \in S}

IsSpace(c) == c = " "

\* String.prototype.trim
RECURSIVE TrimLeft(_)
TrimLeft(s) ==
  IF s # <<>> /\ IsSpace(Head(s)) THEN TrimLeft(Tail(s)) ELSE s

RECURSIVE TrimRight(_)
TrimRight(s) ==
  IF s # <<>> /\ IsSpace(s[Len(s)]) THEN TrimRight(SubSeq(s, 1, Len(s) - 1)) ELSE s

Trim(s) == TrimRight(TrimLeft(s))

\* String.prototype.split(",")
RECURSIVE SplitComma(_)
SplitComma(s) ==
  IF \E i \in 1..Len(s) : s[i] = ","
  THEN LET i == CHOOSE k \in 1..Len(s) : s[k] = "," /\ \A j \in 1..(k - 1) : s[j] # ","
       IN <<SubSeq(s, 1, i - 1)>> \o SplitComma(SubSeq(s, i + 1, Len(s)))
  ELSE <<s>>

SeqRange(s) == {s[i] : i \in 1..Len(s)}

\* Array.from(new Set(parts)): first occurrences, in order
RECURSIVE Dedupe(_)
Dedupe(s) ==
  IF s = <<>> THEN <<>>
  ELSE LET front == Dedupe(SubSeq(s, 1, Len(s) - 1))
           last == s[Len(s)]
       IN IF last \in SeqRange(front) THEN front ELSE Append(front, last)

MapTrim(parts) == [i \in 1..Len(parts) |-> Trim(parts[i])]

FilterNonEmpty(parts) == SelectSeq(parts, LAMBDA p : Len(p) > 0)

\* parseSkillList: the array of distinct trimmed non-empty names
parseSkillList(value) ==
  IF Falsy(value) THEN <<>>
  ELSE Dedupe(FilterNonEmpty(MapTrim(SplitComma(value.v))))

(***************************************************************************)
(* The store.  A database is a record of the three tables and the two      *)
(* AUTOINCREMENT counters.  Each statement operator returns the database   *)
(* after the statement, whether it ran without a constraint error, and the *)
(* driver's lastID / changes.                                              *)
(***************************************************************************)
ValidStatus == {"applied", "interview", "rejected", "closed"}

EmptyDb ==
  [application |-> {}, skills |-> {}, application_skill_set |-> {},
   appSeq |-> 0, skillSeq |-> 0]

Ok(d, lastID, changes) == [db |-> d, ok |-> TRUE, lastID |-> lastID, changes |-> changes]
Fail(d) == [db |-> d, ok |-> FALSE, lastID |-> 0, changes |-> 0]

\* decimal digits of a natural number, as characters
DigitChar(n) == CASE n = 0 -> "0" [] n = 1 -> "1" [] n = 2 -> "2" [] n = 3 -> "3"
                  [] n = 4 -> "4" [] n = 5 -> "5" [] n = 6 -> "6" [] n = 7 -> "7"
                  [] n = 8 -> "8" [] n = 9 -> "9"

RECURSIVE Digits(_)
Digits(n) == IF n < 10 THEN <<DigitChar(n)>> ELSE Append(Digits(n \div 10), DigitChar(n % 10))

\* a bound parameter stored in a TEXT column: undefined and null are NULL,
\* a number is stored as its decimal text
TextColumn(x) ==
  CASE x = Undefined -> Null
    [] x = Null -> Null
    [] x.t = "number" -> Str(Digits(x.v))
    [] OTHER -> x

\* a status column without its CHECK: any text is stored
StatusCheckAny(x) == x.t = "string"

\* CHECK (status IN ('applied', 'interview', 'rejected', 'closed'))
StatusCheck(x) == x.t = "string" /\ x.v \in ValidStatus

\* INSERT INTO application (...) VALUES (?, ?, ?, ?, ?, ?)
InsertApplication(d, companyName, jobTitle, location, sourceUrl, status, applyTime, now) ==
  LET company == TextColumn(companyName)
      st == TextColumn(status)
  IN IF company = Null \/ ~StatusCheck(st) THEN Fail(d)
     ELSE LET id == d.appSeq + 1
              row == [id |-> id,
                      company_name |-> company,
                      job_title |-> TextColumn(jobTitle),
                      location |-> TextColumn(location),
                      source_url |-> TextColumn(sourceUrl),
                      status |-> st.v,
                      apply_time |-> TextColumn(applyTime),
                      create_time |-> now,
                      update_time |-> now]
          IN Ok([d EXCEPT !.application = @ \cup {row}, !.appSeq = id], id, 1)

\* SELECT * FROM application WHERE id = ?
SelectApplication(d, id) == {r \in d.application : r.id = id}

\* the same DELETE against a link table declared without ON DELETE CASCADE
\* and with foreign keys off: the links stay behind
DeleteApplicationRowNoCascade(d, id) ==
  LET gone == SelectApplication(d, id)
  IN Ok([d EXCEPT !.application = @ \ gone], 0, Cardinality(gone))

\* a DELETE that also drops the skill rows no application links any more
DeleteApplicationRowPruningSkills(d, id) ==
  LET gone == SelectApplication(d, id)
      links == {l \in d.application_skill_set : l.application_id # id}
  IN Ok([d EXCEPT !.application = @ \ gone,
                  !.application_skill_set = links,
                  !.skills = {s \in @ : \E l \in links : l.skill_id = s.id}],
        0, Cardinality(gone))

\* DELETE FROM application WHERE id = ?   (links go with ON DELETE CASCADE)
DeleteApplicationRow(d, id) ==
  LET gone == SelectApplication(d, id)
  IN Ok([d EXCEPT !.application = @ \ gone,
                  !.application_skill_set = {l \in @ : l.application_id # id}],
        0, Cardinality(gone))

\* SELECT id, name FROM skills WHERE name IN (...)
SelectSkillsByName(d, names) == {s \in d.skills : s.name \in SeqRange(names)}

\* a name column declared without UNIQUE
SkillNameUniqueOff(d, name) == TRUE

\* name TEXT NOT NULL UNIQUE
SkillNameUnique(d, name) == \A s \in d.skills : s.name # name

\* INSERT INTO skills (name, is_soft_skill) VALUES (?, ?)
InsertSkill(d, name, isSoftSkill) ==
  IF ~SkillNameUnique(d, name) THEN Fail(d)
  ELSE LET id == d.skillSeq + 1
       IN Ok([d EXCEPT !.skills = @ \cup {[id |-> id, name |-> name, is_soft_skill |-> isSoftSkill]},
                       !.skillSeq = id], id, 1)

\* DELETE FROM application_skill_set WHERE application_id = ?
\*   AND skill_id IN (SELECT id FROM skills WHERE is_soft_skill = ?)
DeleteLinksOfCategory(d, applicationId, isSoftSkill) ==
  LET ids == {s.id : s \in {x \in d.skills : x.is_soft_skill = isSoftSkill}}
      gone == {l \in d.application_skill_set :
                 l.application_id = applicationId /\ l.skill_id \in ids}
  IN Ok([d EXCEPT !.application_skill_set = @ \ gone], 0, Cardinality(gone))

\* a plain INSERT INTO application_skill_set: a duplicate pair is a
\* primary-key error
InsertLinkNoIgnore(d, applicationId, skillId) ==
  IF \/ SelectApplication(d, applicationId) = {}
     \/ ~\E s \in d.skills : s.id = skillId
     \/ [application_id |-> applicationId, skill_id |-> skillId] \in d.application_skill_set
  THEN Fail(d)
  ELSE Ok([d EXCEPT !.application_skill_set =
             @ \cup {[application_id |-> applicationId, skill_id |-> skillId]}], 0, 1)

\* INSERT OR IGNORE INTO application_skill_set (application_id, skill_id):
\* a duplicate pair is skipped, a missing parent row is a foreign-key error
InsertLink(d, applicationId, skillId) ==
  IF \/ SelectApplication(d, applicationId) = {}
     \/ ~\E s \in d.skills : s.id = skillId
  THEN Fail(d)
  ELSE LET l == [application_id |-> applicationId, skill_id |-> skillId]
       IN IF l \in d.application_skill_set THEN Ok(d, 0, 0)
          ELSE Ok([d EXCEPT !.application_skill_set = @ \cup {l}], 0, 1)

(***************************************************************************)
(* The application service.  Arrays are wrapped so that an omitted skill   *)
(* list (undefined) and the empty list are different values.               *)
(***************************************************************************)
Arr(s) == [t |-> "array", v |-> s]

Soft == 1
Required == 0
Categories == {Soft, Required}

EmptyInput ==
  [companyName |-> Undefined, jobTitle |-> Undefined, location |-> Undefined,
   sourceUrl |-> Undefined, status |-> Undefined, applyTime |-> Undefined,
   softSkills |-> Undefined, skills |-> Undefined]

\* the Application object of a row
mapRowToApplication(row) ==
  [id |-> row.id, companyName |-> row.company_name, jobTitle |-> row.job_title,
   location |-> row.location, sourceUrl |-> row.source_url, status |-> row.status,
   applyTime |-> row.apply_time, createTime |-> row.create_time,
   updateTime |-> row.update_time]

\* existingMap of getOrCreateSkills: name -> id, as a set of pairs
MapHas(m, name) == \E e \in m : e.name = name
MapGet(m, name) == (CHOOSE e \in m : e.name = name).id
MapSet(m, name, id) == {e \in m : e.name # name} \cup {[name |-> name, id |-> id]}

\* the loop over `missing`: one INSERT per name, the first error ends the call
RECURSIVE InsertMissing(_, _, _, _)
InsertMissing(d, missing, isSoftSkill, existingMap) ==
  IF missing = <<>> THEN [db |-> d, ok |-> TRUE, map |-> existingMap]
  ELSE LET r == InsertSkill(d, Head(missing), isSoftSkill)
       IN IF ~r.ok THEN [db |-> r.db, ok |-> FALSE, map |-> existingMap]
          ELSE InsertMissing(r.db, Tail(missing), isSoftSkill,
                             MapSet(existingMap, Head(missing), r.lastID))

\* the rows the lookup of getOrCreateSkills returns: by name, whatever the category
LookupSkills(d, names, isSoftSkill) == SelectSkillsByName(d, names)

\* existingMap: the rows of the lookup, name -> id
ExistingMap(d, names, isSoftSkill) ==
  {[name |-> row.name, id |-> row.id] : row \in LookupSkills(d, names, isSoftSkill)}

\* const missing = names.filter((name) => !existingMap.has(name))
MissingNames(names, existingMap) == SelectSeq(names, LAMBDA name : ~MapHas(existingMap, name))

\* return names.map((name) => existingMap.get(name)), after the inserts `r`
SkillIds(names, r) ==
  IF ~r.ok THEN [db |-> r.db, ok |-> FALSE, ids |-> <<>>]
  ELSE [db |-> r.db, ok |-> TRUE,
        ids |-> [i \in 1..Len(names) |-> MapGet(r.map, names[i])]]

CreateMissing(d, names, isSoftSkill, existingMap) ==
  SkillIds(names, InsertMissing(d, MissingNames(names, existingMap), isSoftSkill, existingMap))

getOrCreateSkills(d, names, isSoftSkill) ==
  IF names = <<>> THEN [db |-> d, ok |-> TRUE, ids |-> <<>>]
  ELSE CreateMissing(d, names, isSoftSkill, ExistingMap(d, names, isSoftSkill))

\* the loop over skillIds: one INSERT OR IGNORE per id
RECURSIVE InsertLinks(_, _, _)
InsertLinks(d, applicationId, skillIds) ==
  IF skillIds = <<>> THEN [db |-> d, ok |-> TRUE]
  ELSE LET r == InsertLink(d, applicationId, Head(skillIds))
       IN IF ~r.ok THEN [db |-> r.db, ok |-> FALSE]
          ELSE InsertLinks(r.db, applicationId, Tail(skillIds))

\* the links to the ids `g` that getOrCreateSkills returned
LinkSkills(applicationId, g) ==
  IF ~g.ok THEN [db |-> g.db, ok |-> FALSE]
  ELSE InsertLinks(g.db, applicationId, g.ids)

\* syncApplicationSkills after its DELETE left the store `cleared`
Resync(cleared, applicationId, names, isSoftSkill) ==
  IF names = <<>> THEN [db |-> cleared, ok |-> TRUE]
  ELSE LinkSkills(applicationId, getOrCreateSkills(cleared, names, isSoftSkill))

syncApplicationSkills(d, applicationId, skillNames, isSoftSkill) ==
  IF skillNames = Undefined THEN [db |-> d, ok |-> TRUE]
  ELSE Resync(DeleteLinksOfCategory(d, applicationId, isSoftSkill).db,
              applicationId, skillNames.v, isSoftSkill)

\* the second call of syncApplicationSkills, after the first returned `s1`
SyncRequired(applicationId, requiredSkillNames, s1) ==
  IF ~s1.ok THEN s1
  ELSE syncApplicationSkills(s1.db, applicationId, requiredSkillNames, Required)

\* the soft skills, then the required skills
SyncSkills(d, applicationId, softSkillNames, requiredSkillNames) ==
  SyncRequired(applicationId, requiredSkillNames,
               syncApplicationSkills(d, applicationId, softSkillNames, Soft))

\* the read-back at the end of createApplication; mapping a missing row throws
ReadBack(d, id) ==
  LET rows == SelectApplication(d, id)
  IN IF rows = {} THEN [db |-> d, ok |-> FALSE, row |-> Null]
     ELSE [db |-> d, ok |-> TRUE, row |-> mapRowToApplication(CHOOSE r \in rows : TRUE)]

\* the end of createApplication, after the skills were synced with outcome `s`
CreatedRow(id, s) ==
  IF ~s.ok THEN [db |-> s.db, ok |-> FALSE, row |-> Null, id |-> id]
  ELSE LET rb == ReadBack(s.db, id)
       IN [db |-> rb.db, ok |-> rb.ok, row |-> rb.row, id |-> id]

\* createApplication after its INSERT returned `ins`
AfterInsert(d, input, ins) ==
  IF ~ins.ok THEN [db |-> d, ok |-> FALSE, row |-> Null, id |-> 0]
  ELSE CreatedRow(ins.lastID,
                  SyncSkills(ins.db, ins.lastID,
                             Arr(parseSkillList(input.softSkills)),
                             Arr(parseSkillList(input.skills))))

createApplication(d, input, now) ==
  AfterInsert(d, input,
              InsertApplication(d, input.companyName,
                                Coalesce(input.jobTitle, Null),
                                Coalesce(input.location, Null),
                                Coalesce(input.sourceUrl, Null),
                                Coalesce(input.status, Str("applied")),
                                Coalesce(input.applyTime, Null), now))

getApplicationById(d, id) ==
  LET rows == SelectApplication(d, id)
  IN IF rows = {} THEN Null ELSE mapRowToApplication(CHOOSE r \in rows : TRUE)

\* the column fields of an update input that are present
ColumnFields == {"companyName", "jobTitle", "location", "sourceUrl", "status", "applyTime"}
PresentFields(input) == {f \in ColumnFields : input[f] # Undefined}

\* the AFTER UPDATE trigger trg_application_update_time
TouchUpdateTime(row, now) == [row EXCEPT !.update_time = now]

\* UPDATE application SET <present fields> on the rows the WHERE clause selects
UpdateRows(d, rows, input, now) ==
  LET has(f) == input[f] # Undefined
      set(row) ==
        [row EXCEPT
           !.company_name = IF has("companyName") THEN TextColumn(input.companyName) ELSE @,
           !.job_title = IF has("jobTitle") THEN TextColumn(input.jobTitle) ELSE @,
           !.location = IF has("location") THEN TextColumn(input.location) ELSE @,
           !.source_url = IF has("sourceUrl") THEN TextColumn(input.sourceUrl) ELSE @,
           !.status = IF has("status") /\ StatusCheck(TextColumn(input.status))
                      THEN input.status.v ELSE @,
           !.apply_time = IF has("applyTime") THEN TextColumn(input.applyTime) ELSE @]
      violates ==
        \/ has("companyName") /\ TextColumn(input.companyName) = Null
        \/ has("status") /\ ~StatusCheck(TextColumn(input.status))
  IN IF rows = {} THEN Ok(d, 0, 0)
     ELSE IF violates THEN Fail(d)
     ELSE Ok([d EXCEPT !.application =
                 (@ \ rows) \cup {TouchUpdateTime(set(r), now) : r \in rows}], 0, 1)

\* an UPDATE that lost its WHERE clause: every row is written
UpdateEveryRow(d, id, input, now) == UpdateRows(d, d.application, input, now)

\* UPDATE application SET <present fields> WHERE id = ?
UpdateApplicationRow(d, id, input, now) == UpdateRows(d, SelectApplication(d, id), input, now)

\* the end of updateApplication, after the skills were synced with outcome `s`
UpdatedRow(id, s) ==
  IF ~s.ok THEN [db |-> s.db, ok |-> FALSE, row |-> Null]
  ELSE [db |-> s.db, ok |-> TRUE, row |-> getApplicationById(s.db, id)]

\* updateApplication after its UPDATE, if it ran one, returned `u`
AfterUpdate(d, id, input, u) ==
  IF ~u.ok THEN [db |-> d, ok |-> FALSE, row |-> Null]
  ELSE UpdatedRow(id,
         SyncSkills(u.db, id,
           IF input.softSkills # Undefined THEN Arr(parseSkillList(input.softSkills)) ELSE Undefined,
           IF input.skills # Undefined THEN Arr(parseSkillList(input.skills)) ELSE Undefined))

\* updateApplication running its UPDATE whether or not a column field is present
updateApplicationAlwaysWriting(d, id, input, now) ==
  AfterUpdate(d, id, input, UpdateApplicationRow(d, id, input, now))

updateApplication(d, id, input, now) ==
  AfterUpdate(d, id, input,
              IF PresentFields(input) # {} THEN UpdateApplicationRow(d, id, input, now)
              ELSE Ok(d, 0, 0))

deleteApplication(d, id) ==
  LET r == DeleteApplicationRow(d, id)
  IN [db |-> r.db, ok |-> TRUE, deleted |-> r.changes > 0]

(***************************************************************************)
(* The import pipeline.  The text the model answers with is a sequence of  *)
(* tokens: "{" and "}" are braces, "m" is a well-formed list of JSON       *)
(* members and "x" is any other text.  `members` is the object that the    *)
(* member list spells out (an absent key is undefined).                    *)
(***************************************************************************)
TextTokens == {"{", "}", "m", "x"}

\* String.prototype.indexOf / lastIndexOf, 0-based, -1 when absent
IndexOf(text, c) ==
  IF \E i \in 1..Len(text) : text[i] = c
  THEN (CHOOSE i \in 1..Len(text) : text[i] = c /\ \A j \in 1..(i - 1) : text[j] # c) - 1
  ELSE -1

LastIndexOf(text, c) ==
  IF \E i \in 1..Len(text) : text[i] = c
  THEN (CHOOSE i \in 1..Len(text) : text[i] = c /\ \A j \in (i + 1)..Len(text) : text[j] # c) - 1
  ELSE -1

\* String.prototype.slice(from, to), 0-based, `to` exclusive
Slice(text, from, to) == SubSeq(text, from + 1, to)

\* JSON.parse of a text that starts with "{": an object or a SyntaxError
JsonParse(jsonText, members) ==
  CASE jsonText = <<"{", "}">> -> [ok |-> TRUE, value |-> EmptyInput]
    [] jsonText = <<"{", "m", "}">> -> [ok |-> TRUE, value |-> members]
    [] OTHER -> [ok |-> FALSE, value |-> Null]

\* the text between the first "{" at `start` and the last "}" at `end`, decoded
SliceJson(text, members, start, end) ==
  IF start = -1 \/ end = -1 \/ end <= start THEN [ok |-> FALSE, value |-> Null]
  ELSE JsonParse(Slice(text, start, end + 1), members)

\* parseGeminiJson cutting at the first "}" instead of the last
parseGeminiJsonFirstBrace(text, members) ==
  SliceJson(text, members, IndexOf(text, "{"), IndexOf(text, "}"))

parseGeminiJson(text, members) ==
  SliceJson(text, members, IndexOf(text, "{"), LastIndexOf(text, "}"))

\* the CreateApplicationInput analyzeJobContent returns for the decoded text
Analysed(url, parsed) ==
  IF ~parsed.ok THEN [ok |-> FALSE, stage |-> "parse", input |-> EmptyInput]
  ELSE [ok |-> TRUE, stage |-> "analyzed",
        input |-> [companyName |-> Coalesce(parsed.value.companyName, Str(<<>>)),
                   jobTitle |-> Coalesce(parsed.value.jobTitle, Null),
                   location |-> Coalesce(parsed.value.location, Null),
                   sourceUrl |-> Coalesce(parsed.value.sourceUrl, url),
                   status |-> Coalesce(parsed.value.status, Str("applied")),
                   applyTime |-> Coalesce(parsed.value.applyTime, Null),
                   softSkills |-> Coalesce(parsed.value.softSkills, Null),
                   skills |-> Coalesce(parsed.value.skills, Null)]]

\* env.model = "fail": getGeminiModel throws or generateContent rejects
analyzeJobContent(url, env) ==
  IF env.model # "ok" THEN [ok |-> FALSE, stage |-> "model", input |-> EmptyInput]
  ELSE Analysed(url, parseGeminiJson(env.text, env.members))

\* the precedence the other way round: the analysed status before the requested one
ResolveStatusExtractedFirst(requested, analysed) ==
  Coalesce(analysed, Coalesce(requested, Str("applied")))

\* the status importApplicationFromLink hands to createApplication
ResolveStatus(requested, analysed) ==
  Coalesce(requested, Coalesce(analysed, Str("applied")))

\* the input of createApplication: the analysis with the resolved status
WithStatus(input, analysis) ==
  [ok |-> TRUE, stage |-> "analyzed",
   input |-> [analysis.input EXCEPT
                !.status = ResolveStatus(input.status, analysis.input.status)]]

\* an analysis handed on without the check of its companyName
AnyCompany(input, analysis) ==
  IF ~analysis.ok THEN analysis ELSE WithStatus(input, analysis)

\* if (!analysis.companyName) throw, else the input for createApplication
RequireCompany(input, analysis) ==
  IF ~analysis.ok THEN analysis
  ELSE IF Falsy(analysis.input.companyName)
       THEN [ok |-> FALSE, stage |-> "incomplete", input |-> EmptyInput]
       ELSE WithStatus(input, analysis)

\* importApplicationFromLink going on with an empty page when the fetch failed
ImportAnalysisIgnoringFetch(input, env) ==
  RequireCompany(input, analyzeJobContent(input.url, env))

\* the part of importApplicationFromLink before the store is touched:
\* the input for createApplication, or the stage that threw
ImportAnalysis(input, env) ==
  IF env.fetch # "ok" THEN [ok |-> FALSE, stage |-> "fetch", input |-> EmptyInput]
  ELSE RequireCompany(input, analyzeJobContent(input.url, env))

\* what importApplicationFromLink returns when createApplication returned `c`
Imported(c) ==
  [db |-> c.db, ok |-> c.ok, stage |-> IF c.ok THEN "done" ELSE "store",
   row |-> c.row, id |-> c.id, called |-> TRUE]

\* importApplicationFromLink once the analysis `a` is there
StoreAnalysis(d, now, a) ==
  IF ~a.ok THEN [db |-> d, ok |-> FALSE, stage |-> a.stage, row |-> Null, id |-> 0, called |-> FALSE]
  ELSE Imported(createApplication(d, a.input, now))

importApplicationFromLink(d, input, env, now) ==
  StoreAnalysis(d, now, ImportAnalysis(input, env))

(***************************************************************************)
(* The REST handlers.  A response is the status code and the key of the    *)
(* JSON body; code 0 is "no response sent" (the awaited call threw and the *)
(* handler has no catch).                                                  *)
(***************************************************************************)
Response(code, key) == [code |-> code, key |-> key]
NoResponse == Response(0, "none")

isValidStatus(status) == status.t = "string" /\ status.v \in ValidStatus

SkillFieldsAreStrings(body) ==
  /\ body.softSkills = Undefined \/ IsString(body.softSkills)
  /\ body.skills = Undefined \/ IsString(body.skills)

\* the checks of createApplicationHandler that answer 400
CreateBodyRejected(body) ==
  \/ Falsy(body.companyName) \/ ~IsString(body.companyName)
  \/ body.status # Undefined /\ ~isValidStatus(body.status)
  \/ ~SkillFieldsAreStrings(body)

\* res.status(201).json({data}), or no response when createApplication threw
CreateAnswer(c) ==
  [db |-> c.db, res |-> IF c.ok THEN Response(201, "data") ELSE NoResponse,
   ok |-> c.ok, id |-> c.id, called |-> TRUE]

createApplicationHandler(d, body, now) ==
  IF CreateBodyRejected(body)
  THEN [db |-> d, res |-> Response(400, "error"), ok |-> FALSE, id |-> 0, called |-> FALSE]
  ELSE CreateAnswer(createApplication(d, body, now))

\* the checks of updateApplicationHandler that answer 400
UpdateBodyRejected(body) ==
  \/ body.status # Undefined /\ ~isValidStatus(body.status)
  \/ ~SkillFieldsAreStrings(body)

\* the answer of updateApplicationHandler to what updateApplication returned
UpdateResponse(row) ==
  IF row = Null THEN Response(404, "error") ELSE Response(200, "data")

\* 404 or the updated application, or no response when updateApplication threw
UpdateAnswer(u) ==
  [db |-> u.db,
   res |-> IF ~u.ok THEN NoResponse ELSE UpdateResponse(u.row),
   ok |-> u.ok /\ u.row # Null, called |-> TRUE]

updateApplicationHandler(d, id, body, now) ==
  IF UpdateBodyRejected(body)
  THEN [db |-> d, res |-> Response(400, "error"), ok |-> FALSE, called |-> FALSE]
  ELSE UpdateAnswer(updateApplication(d, id, body, now))

deleteApplicationHandler(d, id) ==
  LET r == deleteApplication(d, id)
  IN [db |-> r.db, res |-> IF r.deleted THEN Response(204, "empty") ELSE Response(404, "error"),
      deleted |-> r.deleted]

\* the checks of importApplicationHandler that answer 400
ImportBodyRejected(body) ==
  \/ Falsy(body.url) \/ ~IsString(body.url)
  \/ body.status # Undefined /\ ~isValidStatus(body.status)

\* the error text of a 400
ImportRejection(body) ==
  IF Falsy(body.url) \/ ~IsString(body.url) THEN "url is required" ELSE "Invalid status"

\* a catch block that reports the stage the pipeline failed at
ImportAnswerNamingStage(r) ==
  [db |-> r.db, res |-> IF r.ok THEN Response(201, "data") ELSE Response(500, "error"),
   ok |-> r.ok, stage |-> r.stage, id |-> r.id, called |-> r.called,
   message |-> IF r.ok THEN "none" ELSE r.stage]

\* res.status(201).json({data}), or the 500 of the catch block
ImportAnswer(r) ==
  [db |-> r.db, res |-> IF r.ok THEN Response(201, "data") ELSE Response(500, "error"),
   ok |-> r.ok, stage |-> r.stage, id |-> r.id, called |-> r.called,
   message |-> IF r.ok THEN "none" ELSE "Failed to import application"]

importApplicationHandler(d, body, env, now) ==
  IF ImportBodyRejected(body)
  THEN [db |-> d, res |-> Response(400, "error"), ok |-> FALSE, stage |-> "validation",
        id |-> 0, called |-> FALSE, message |-> ImportRejection(body)]
  ELSE ImportAnswer(importApplicationFromLink(d, body, env, now))

(***************************************************************************)
(* State                                                                   *)
(***************************************************************************)
VARIABLES
  db,        \* the database
  now,       \* the clock behind datetime('now'), in seconds
  supplied,  \* per application and category: the name set the last successful write supplied
  result,    \* what the last request did and answered
  procs      \* the requests in flight when statements of several requests interleave

vars == <<db, now, supplied, result, procs>>

Procs == {1, 2}

\* a request in flight: where it is, what it was given and the locals of
\* syncApplicationSkills / getOrCreateSkills
IdleProc ==
  [pc |-> "idle", op |-> "none", id |-> 0, input |-> EmptyInput, cat |-> Soft,
   map |-> {}, missing |-> <<>>, ids |-> <<>>, introduced |-> {},
   error |-> "none", res |-> NoResponse, served |-> 0]

\* a query of listApplications with no filter
EmptyQuery == [status |-> Undefined, limit |-> Undefined, offset |-> Undefined]

\* what geminiPing was given and the calls it made on res
NoPing == [env |-> Null, statusCalls |-> <<>>, jsonCalls |-> <<>>]

NoResult ==
  [op |-> "none", res |-> NoResponse, id |-> 0, ok |-> FALSE, stage |-> "none",
   called |-> FALSE, deleted |-> FALSE, requested |-> Undefined, extracted |-> Null,
   failure |-> "none", softSkills |-> "none", skills |-> "none",
   body |-> EmptyInput, url |-> Undefined, message |-> "none",
   query |-> EmptyQuery, listed |-> <<>>, ping |-> NoPing,
   arg |-> Null, out |-> Null]

Init ==
  /\ db = EmptyDb
  /\ now = 1
  /\ supplied = <<>>
  /\ result = NoResult
  /\ procs = [p \in Procs |-> IdleProc]

\* the names a skill field supplies: trimmed, non-empty, without duplicates
NameSet(value) ==
  IF value = Undefined \/ value = Null THEN {}
  ELSE {Trim(part) : part \in SeqRange(SplitComma(value.v))} \ {<<>>}

SuppliedBy(body) ==
  [c \in Categories |-> IF c = Soft THEN NameSet(body.softSkills) ELSE NameSet(body.skills)]

SuppliedAfterCreate(id, body) ==
  [i \in DOMAIN supplied \cup {id} |-> IF i = id THEN SuppliedBy(body) ELSE supplied[i]]

SuppliedAfterUpdate(id, body) ==
  [i \in DOMAIN supplied |->
     IF i # id THEN supplied[i]
     ELSE [c \in Categories |->
             IF c = Soft /\ body.softSkills # Undefined THEN NameSet(body.softSkills)
             ELSE IF c = Required /\ body.skills # Undefined THEN NameSet(body.skills)
             ELSE supplied[i][c]]]

SuppliedAfterDelete(id) == [i \in DOMAIN supplied \ {id} |-> supplied[i]]

\* how a request gave a skill field: not at all, as the empty string, or otherwise
FieldKind(value) ==
  IF value = Undefined THEN "omitted"
  ELSE IF value = Str(<<>>) THEN "empty"
  ELSE "given"

(***************************************************************************)
(* Requests served one at a time: a request is one step.  `track` says     *)
(* whether the step records the supplied name sets.                        *)
(***************************************************************************)
CreateRequest(bodies, maxApps, track) ==
  \E body \in bodies :
    /\ db.appSeq < maxApps
    /\ \E h \in {createApplicationHandler(db, body, now)} :
          /\ db' = h.db
          /\ supplied' = IF track /\ h.ok THEN SuppliedAfterCreate(h.id, body) ELSE supplied
          /\ result' = [NoResult EXCEPT !.op = "create", !.res = h.res, !.id = h.id,
                          !.ok = h.ok, !.called = h.called,
                          !.softSkills = FieldKind(body.softSkills),
                          !.skills = FieldKind(body.skills)]
    /\ UNCHANGED <<now, procs>>

UpdateRequest(ids, bodies, track) ==
  \E id \in ids, body \in bodies :
    /\ \E h \in {updateApplicationHandler(db, id, body, now)} :
          /\ db' = h.db
          /\ supplied' = IF track /\ h.ok THEN SuppliedAfterUpdate(id, body) ELSE supplied
          /\ result' = [NoResult EXCEPT !.op = "update", !.res = h.res, !.id = id,
                          !.ok = h.ok, !.called = h.called,
                          !.softSkills = FieldKind(body.softSkills),
                          !.skills = FieldKind(body.skills)]
    /\ UNCHANGED <<now, procs>>

DeleteRequest(ids, track) ==
  \E id \in ids :
    /\ \E h \in {deleteApplicationHandler(db, id)} :
          /\ db' = h.db
          /\ supplied' = IF track THEN SuppliedAfterDelete(id) ELSE supplied
          /\ result' = [NoResult EXCEPT !.op = "delete", !.res = h.res, !.id = id,
                          !.ok = TRUE, !.called = TRUE, !.deleted = h.deleted]
    /\ UNCHANGED <<now, procs>>

\* what the decoded object said, when the text decoded
Extracted(env) ==
  LET parsed == parseGeminiJson(env.text, env.members)
  IN IF env.fetch = "ok" /\ env.model = "ok" /\ parsed.ok
     THEN [companyName |-> parsed.value.companyName, status |-> parsed.value.status]
     ELSE Null

\* what went wrong outside the service: the page fetch, the model call, or a
\* text that does not decode
FailureOf(env) ==
  IF env.fetch # "ok" THEN "fetch"
  ELSE IF env.model # "ok" THEN "model"
  ELSE IF ~parseGeminiJson(env.text, env.members).ok THEN "parse"
  ELSE "none"

\* what the model would answer: a text, and for a text whose member list is
\* decoded the object it spells, one of `objects`
Answers(texts, objects) ==
  {[text |-> t, members |-> EmptyInput] :
     t \in {x \in texts : ~parseGeminiJson(x, Null).ok \/ parseGeminiJson(x, Null).value # Null}}
  \cup {[text |-> t, members |-> o] :
          t \in {x \in texts : parseGeminiJson(x, Null).ok /\ parseGeminiJson(x, Null).value = Null},
          o \in objects}

\* the page fetch succeeds or not, the model call succeeds or not; behind a
\* failed fetch or call stands an answer that would have decoded
ImportEnvs(texts, objects) ==
  {[fetch |-> "ok", model |-> "ok", text |-> a.text, members |-> a.members] :
     a \in Answers(texts, objects)}
  \cup {[fetch |-> f[1], model |-> f[2], text |-> a.text, members |-> a.members] :
          f \in {<<"fail", "ok">>, <<"ok", "fail">>, <<"fail", "fail">>},
          a \in Answers({<<"{", "m", "}">>}, objects)}

ImportRequest(bodies, envs, maxApps, track) ==
  \E body \in bodies :
    /\ db.appSeq < maxApps
    /\ \E env \in (IF ImportBodyRejected(body) THEN {CHOOSE e \in envs : TRUE} ELSE envs) :
         \E h \in {importApplicationHandler(db, body, env, now)} :
            /\ db' = h.db
            /\ supplied' = IF track /\ h.ok
                           THEN SuppliedAfterCreate(h.id, ImportAnalysis(body, env).input)
                           ELSE supplied
            /\ result' = [NoResult EXCEPT !.op = "import", !.res = h.res, !.id = h.id,
                            !.ok = h.ok, !.stage = h.stage, !.called = h.called,
                            !.requested = body.status,
                            !.url = body.url, !.message = h.message,
                            !.extracted = IF h.stage = "validation" THEN Null ELSE Extracted(env),
                            !.failure = IF h.stage = "validation" THEN "none" ELSE FailureOf(env)]
    /\ UNCHANGED <<now, procs>>


With(base, field, values) == {[base EXCEPT ![field] = v] : v \in values}
WithAll(bases, field, values) == UNION {With(b, field, values) : b \in bases}

SkillFields(strings) == {Undefined} \cup {Str(s) : s \in strings}

AppIds == 1..(MaxApps + 1)

(***************************************************************************)
(* Spec: requests that write skill lists, served one at a time.            *)
(***************************************************************************)
\* the skill strings of these requests: nothing, one name, the name twice
SkillStrings == {<<>>, <<"a">>, <<"a", ",", " ", "a">>}

\* a body without a company name, and bodies with one and every pair of skill fields
CreateBodies ==
  {EmptyInput}
  \cup WithAll(WithAll(With(EmptyInput, "companyName", {Str(<<"A">>)}),
        "softSkills", SkillFields(SkillStrings)),
        "skills", SkillFields(SkillStrings) \cup {Null})

\* the skill strings of an update: nothing, one name
ClearOrName == {<<>>, <<"a">>}

UpdateBodies ==
  WithAll(WithAll({EmptyInput},
    "softSkills", SkillFields(ClearOrName)),
    "skills", SkillFields(ClearOrName) \cup {Num(7)})

Create == CreateRequest(CreateBodies, MaxApps, TRUE)
Update == UpdateRequest(AppIds, UpdateBodies, TRUE)
Delete == DeleteRequest(AppIds, TRUE)

Next == Create \/ Update \/ Delete

Spec == Init /\ [][Next]_vars

(***************************************************************************)
(* What the store says about an application's skills                       *)
(***************************************************************************)
LinkedSkills(d, id, cat) ==
  {s \in d.skills :
     /\ s.is_soft_skill = cat
     /\ [application_id |-> id, skill_id |-> s.id] \in d.application_skill_set}

LinkedNames(d, id, cat) == {s.name : s \in LinkedSkills(d, id, cat)}

LinksOf(d, id) == {l \in d.application_skill_set : l.application_id = id}

LiveIds(d) == {r.id : r \in d.application}

\* C1: after any sequence of creates and updates, the names linked to an
\* application in a category are exactly the names last supplied for that
\* category of that application.
C1_LinksEqualSupplied ==
  \A id \in DOMAIN supplied : \A c \in Categories :
    LinkedNames(db, id, c) = supplied[id][c]

\* C9: an update that gives a category the empty string leaves the
\* application with no link in that category, and an update that omits a
\* category leaves that category's links as they were.
C9_EmptyClearsOmittedKeeps ==
  [][(result'.op = "update" /\ result'.res.code = 200) =>
       \A c \in Categories :
         LET kind == IF c = Soft THEN result'.softSkills ELSE result'.skills
         IN /\ kind = "empty" => LinkedSkills(db', result'.id, c) = {}
            /\ kind = "omitted" =>
                 LinkedSkills(db', result'.id, c) = LinkedSkills(db, result'.id, c)]_vars

\* C10: deleteApplication(id) answers true exactly when the row existed;
\* then the row and its links are gone and every skill row, every other
\* application and every other application's links are as before.
C10_DeleteRemovesRowAndLinks ==
  [][result'.op = "delete" =>
       /\ result'.deleted <=> (result'.id \in LiveIds(db))
       /\ result'.deleted =>
            /\ result'.id \notin LiveIds(db')
            /\ LinksOf(db', result'.id) = {}
            /\ db'.skills = db.skills
            /\ db'.application = {r \in db.application : r.id # result'.id}
            /\ \A other \in LiveIds(db) \ {result'.id} : LinksOf(db', other) = LinksOf(db, other)
       /\ ~result'.deleted => db' = db]_vars

\* a delete answered true while another application keeps its link to a skill
C10_Witness ==
  /\ result.op = "delete"
  /\ result.deleted
  /\ db.skills # {}
  /\ \E other \in LiveIds(db) : LinksOf(db, other) # {}

(***************************************************************************)
(* SpecReconcile: every skill string of the bounded length, reconciled     *)
(* into either category of an application.                                 *)
(***************************************************************************)
Letters == {"a", "b"}
SkillChars == Letters \cup {",", " "}

LetterCount(s) == Cardinality({i \in 1..Len(s) : s[i] \in Letters})

\* comma-separated skill strings whose names are one letter long
AllSkillStrings ==
  {s \in SeqsUpTo(SkillChars, MaxSkillLen) :
     \A part \in SeqRange(SplitComma(s)) : LetterCount(part) <= 1}

\* the ids an application can get; before its insert an id names no row
ReconcileIds == 1..ReconcileApps

ReconcileCreateBodies == With(EmptyInput, "companyName", {Str(<<"A">>)})

ReconcileBodies ==
  With(EmptyInput, "softSkills", {Str(s) : s \in AllSkillStrings})
  \cup With(EmptyInput, "skills", {Str(s) : s \in AllSkillStrings})

ReconcileCreate == CreateRequest(ReconcileCreateBodies, ReconcileApps, FALSE)
Reconcile == UpdateRequest(ReconcileIds, ReconcileBodies, FALSE)

NextReconcile == ReconcileCreate \/ Reconcile

SpecReconcile == Init /\ [][NextReconcile]_vars

\* C8: for every application, category and skill string, reconciling a
\* second time with the same string succeeds like the first time, leaves the
\* application linked to the same skill ids and adds no skill row.
C8_ReconcileIdempotent ==
  \A id \in LiveIds(db) : \A c \in Categories : \A s \in AllSkillStrings :
    LET names == Arr(parseSkillList(Str(s)))
        once == syncApplicationSkills(db, id, names, c)
        twice == syncApplicationSkills(once.db, id, names, c)
    IN /\ once.ok
       /\ twice.ok
       /\ LinksOf(twice.db, id) = LinksOf(once.db, id)
       /\ twice.db.skills = once.db.skills

\* a string with two names was reconciled into an application that is linked
\* to skill rows of both categories
C8_Witness ==
  /\ result.op = "update"
  /\ result.res.code = 200
  /\ Cardinality(LinksOf(db, result.id)) = 2
  /\ \A c \in Categories : \E s \in db.skills : s.is_soft_skill = c

(***************************************************************************)
(* SpecImport: imports from a link, among creates, status updates and      *)
(* deletes, served one at a time.                                          *)
(***************************************************************************)
ImportBodies ==
  {[url |-> u, status |-> st] :
     u \in {Undefined, Num(7), Str(<<>>), Str(<<"u">>)},
     st \in {Undefined, Str("interview"), Str("bogus")}}

\* what the model extracts: the company name varies, the status varies, and
\* one posting lists skills
ImportObjects ==
  With(EmptyInput, "companyName", {Null, Str(<<>>), Str(<<"A">>), Num(42)})
  \cup With([EmptyInput EXCEPT !.companyName = Str(<<"A">>)], "status",
            {Null, Str("closed"), Str("bogus")})
  \cup {[EmptyInput EXCEPT !.companyName = Str(<<"A">>), !.status = Str("applied"),
                           !.softSkills = Str(<<"a">>), !.skills = Str(<<"a", ",", "b">>)]}

ImportTexts == SeqsUpTo(TextTokens, MaxTextLen)

StatusCreateBodies ==
  WithAll(With(EmptyInput, "companyName", {Str(<<"A">>)}),
          "status", {Undefined, Str("interview"), Str("bogus")})

StatusUpdateBodies == With(EmptyInput, "status", {Str("interview"), Str("bogus")})

StatusCreate == CreateRequest(StatusCreateBodies, MaxApps, FALSE)
StatusUpdate == UpdateRequest(AppIds, StatusUpdateBodies, FALSE)
ImportDelete == DeleteRequest(AppIds, FALSE)
\* every page and answer an import can meet
ImportWorld == ImportEnvs(ImportTexts, ImportObjects)

Import == ImportRequest(ImportBodies, ImportWorld, MaxApps, FALSE)

NextImport == StatusCreate \/ StatusUpdate \/ ImportDelete \/ Import

SpecImport == Init /\ [][NextImport]_vars

\* C3: an import whose page fetch, model call or text decoding fails never
\* calls createApplication and leaves the store exactly as it was.
C3_FailedImportWritesNothing ==
  [][(result'.op = "import" /\ result'.failure \in {"fetch", "model", "parse"}) =>
       /\ ~result'.called
       /\ ~result'.ok
       /\ db' = db]_vars

\* an import failed on an undecodable text while the store held an application
C3_Witness ==
  /\ result.op = "import"
  /\ result.failure = "parse"
  /\ db.application # {}

\* C4: an import whose extraction result has the empty string, null or no
\* companyName fails and creates no application row.
C4_NoCompanyNoRow ==
  [][(/\ result'.op = "import"
      /\ result'.extracted # Null
      /\ result'.extracted.companyName \in {Undefined, Null, Str(<<>>)}) =>
       /\ ~result'.ok
       /\ result'.res.code = 500
       /\ db'.application = db.application
       /\ db'.appSeq = db.appSeq]_vars

\* an import decoded an object with companyName null and failed
C4_Witness ==
  /\ result.op = "import"
  /\ result.extracted # Null
  /\ result.extracted.companyName = Null
  /\ result.stage = "incomplete"

\* C5: every persisted application row has one of the four statuses.
C5_StatusIsValid == \A r \in db.application : r.status \in ValidStatus

\* an import without requested status extracted an unknown status and was
\* turned down by the store, which holds an application
C5_Witness ==
  /\ result.op = "import"
  /\ result.requested = Undefined
  /\ result.extracted # Null
  /\ result.extracted.status = Str("bogus")
  /\ result.stage = "store"
  /\ db.application # {}

\* the status a successful import is to persist
ExpectedStatus(requested, extracted) ==
  IF requested # Undefined THEN requested.v
  ELSE IF extracted.status \notin {Undefined, Null} THEN extracted.status.v
  ELSE "applied"

\* C6: a successful import persists the requested status when one was
\* supplied, otherwise the extracted status, otherwise "applied".
C6_ImportStatusPrecedence ==
  [][(result'.op = "import" /\ result'.ok) =>
       \E r \in db'.application :
         /\ r.id = result'.id
         /\ r.id \notin LiveIds(db)
         /\ r.status = ExpectedStatus(result'.requested, result'.extracted)]_vars

\* an import with requested status "interview" succeeded on a posting whose
\* extracted status is "closed"
C6_Witness ==
  /\ result.op = "import"
  /\ result.ok
  /\ result.requested = Str("interview")
  /\ result.extracted.status = Str("closed")

(***************************************************************************)
(* SpecConc: two requests in flight.  Between two awaited statements of    *)
(* one request the statements of the other may run; each statement is one  *)
(* step.  A call that is skipped or returns without a statement takes no   *)
(* step of its own.                                                        *)
(***************************************************************************)
\* skillNames of the category, as createApplication / updateApplication compute them
NamesOf(pr, cat) ==
  LET field == IF cat = Soft THEN pr.input.softSkills ELSE pr.input.skills
  IN IF pr.op = "update" /\ field = Undefined THEN Undefined
     ELSE Arr(parseSkillList(field))

\* what a request starts from: the idle record, with the client's count
Fresh(p) == [IdleProc EXCEPT !.served = procs[p].served + 1]

\* the call ended by an exception: the handler sends `res`
Thrown(pr, error, res) == [pr EXCEPT !.pc = "done", !.error = error, !.res = res]

\* the answer when the awaited service call throws: only the import handler catches
ThrowResponse(pr) == IF pr.op = "import" THEN Response(500, "error") ELSE NoResponse

\* the next statement once the category's reconciliation has returned
AfterCategory(pr) ==
  IF pr.cat = Soft /\ NamesOf(pr, Required) # Undefined
  THEN [pr EXCEPT !.pc = "deleteLinks", !.cat = Required, !.map = {}, !.missing = <<>>, !.ids = <<>>]
  ELSE [pr EXCEPT !.pc = "readBack", !.map = {}, !.missing = <<>>, !.ids = <<>>]

\* the next statement when the two reconciliations start
EnterSync(pr) ==
  IF NamesOf(pr, Soft) # Undefined THEN [pr EXCEPT !.pc = "deleteLinks", !.cat = Soft]
  ELSE IF NamesOf(pr, Required) # Undefined THEN [pr EXCEPT !.pc = "deleteLinks", !.cat = Required]
  ELSE [pr EXCEPT !.pc = "readBack"]

\* the ids getOrCreateSkills returns, in the order of the names
IdsOfNames(names, map) == [i \in 1..Len(names) |-> MapGet(map, names[i])]

Running(pcs) == Cardinality({q \in Procs : procs[q].pc \in pcs})

\* POST /applications arrives
StartCreate(p, bodies, maxApps) ==
  \E body \in bodies :
    /\ procs[p].pc = "idle"
    /\ procs[p].served < MaxServed
    /\ db.appSeq + Running({"insertApp"}) < maxApps
    /\ procs' = [procs EXCEPT ![p] =
         IF CreateBodyRejected(body)
         THEN [Fresh(p) EXCEPT !.pc = "done", !.op = "create", !.res = Response(400, "error")]
         ELSE [Fresh(p) EXCEPT !.pc = "insertApp", !.op = "create", !.input = body]]
    /\ UNCHANGED <<db, now, supplied, result>>

\* POST /applications/import arrives; the page fetch and the model call
\* touch no shared state
StartImport(p, bodies, envs, maxApps) ==
  \E body \in bodies, env \in envs :
    /\ procs[p].pc = "idle"
    /\ procs[p].served < MaxServed
    /\ db.appSeq + Running({"insertApp"}) < maxApps
    /\ LET a == ImportAnalysis(body, env)
       IN procs' = [procs EXCEPT ![p] =
            IF ImportBodyRejected(body)
            THEN [Fresh(p) EXCEPT !.pc = "done", !.op = "import", !.res = Response(400, "error")]
            ELSE IF ~a.ok
            THEN [Fresh(p) EXCEPT !.pc = "done", !.op = "import", !.error = a.stage,
                                  !.res = Response(500, "error")]
            ELSE [Fresh(p) EXCEPT !.pc = "insertApp", !.op = "import", !.input = a.input]]
    /\ UNCHANGED <<db, now, supplied, result>>

\* PUT /applications/:id arrives
StartUpdate(p, ids, bodies) ==
  \E id \in ids, body \in bodies :
    /\ procs[p].pc = "idle"
    /\ procs[p].served < MaxServed
    /\ procs' = [procs EXCEPT ![p] =
         IF UpdateBodyRejected(body)
         THEN [Fresh(p) EXCEPT !.pc = "done", !.op = "update", !.id = id,
                               !.res = Response(400, "error")]
         ELSE LET pr == [Fresh(p) EXCEPT !.op = "update", !.id = id, !.input = body]
              IN IF PresentFields(body) # {} THEN [pr EXCEPT !.pc = "updateRow"]
                 ELSE EnterSync(pr)]
    /\ UNCHANGED <<db, now, supplied, result>>

\* DELETE /applications/:id arrives
StartDelete(p, ids) ==
  \E id \in ids :
    /\ procs[p].pc = "idle"
    /\ procs[p].served < MaxServed
    /\ procs' = [procs EXCEPT ![p] = [Fresh(p) EXCEPT !.pc = "deleteRow", !.op = "delete", !.id = id]]
    /\ UNCHANGED <<db, now, supplied, result>>

\* deleteApplication: DELETE FROM application, and the handler's answer
StepDeleteRow(p) ==
  LET pr == procs[p]
      h == deleteApplicationHandler(db, pr.id)
  IN /\ pr.pc = "deleteRow"
     /\ db' = h.db
     /\ procs' = [procs EXCEPT ![p] = [pr EXCEPT !.pc = "done", !.res = h.res]]
     /\ UNCHANGED <<now, supplied, result>>

\* createApplication: INSERT INTO application
StepInsertApp(p) ==
  LET pr == procs[p]
      r == InsertApplication(db, pr.input.companyName,
                             Coalesce(pr.input.jobTitle, Null),
                             Coalesce(pr.input.location, Null),
                             Coalesce(pr.input.sourceUrl, Null),
                             Coalesce(pr.input.status, Str("applied")),
                             Coalesce(pr.input.applyTime, Null), now)
  IN /\ pr.pc = "insertApp"
     /\ db' = r.db
     /\ procs' = [procs EXCEPT ![p] =
          IF ~r.ok THEN Thrown(pr, "application", ThrowResponse(pr))
          ELSE EnterSync([pr EXCEPT !.id = r.lastID])]
     /\ UNCHANGED <<now, supplied, result>>

\* updateApplication: UPDATE application
StepUpdateRow(p) ==
  LET pr == procs[p]
      r == UpdateApplicationRow(db, pr.id, pr.input, now)
  IN /\ pr.pc = "updateRow"
     /\ db' = r.db
     /\ procs' = [procs EXCEPT ![p] =
          IF ~r.ok THEN Thrown(pr, "application", ThrowResponse(pr)) ELSE EnterSync(pr)]
     /\ UNCHANGED <<now, supplied, result>>

\* syncApplicationSkills: DELETE FROM application_skill_set
StepDeleteLinks(p) ==
  LET pr == procs[p]
      r == DeleteLinksOfCategory(db, pr.id, pr.cat)
  IN /\ pr.pc = "deleteLinks"
     /\ db' = r.db
     /\ procs' = [procs EXCEPT ![p] =
          IF NamesOf(pr, pr.cat).v = <<>> THEN AfterCategory(pr)
          ELSE [pr EXCEPT !.pc = "select"]]
     /\ UNCHANGED <<now, supplied, result>>

\* getOrCreateSkills: SELECT id, name FROM skills
StepSelect(p) ==
  LET pr == procs[p]
      names == NamesOf(pr, pr.cat).v
      existingRows == LookupSkills(db, names, pr.cat)
      existingMap == {[name |-> row.name, id |-> row.id] : row \in existingRows}
      missing == SelectSeq(names, LAMBDA name : ~MapHas(existingMap, name))
  IN /\ pr.pc = "select"
     /\ procs' = [procs EXCEPT ![p] =
          IF missing = <<>>
          THEN [pr EXCEPT !.pc = "insertLink", !.map = existingMap,
                          !.ids = IdsOfNames(names, existingMap)]
          ELSE [pr EXCEPT !.pc = "insertSkill", !.map = existingMap, !.missing = missing,
                          !.introduced = @ \cup SeqRange(missing)]]
     /\ UNCHANGED <<db, now, supplied, result>>

\* getOrCreateSkills: INSERT INTO skills, once per missing name
StepInsertSkill(p) ==
  LET pr == procs[p]
      name == Head(pr.missing)
      r == InsertSkill(db, name, pr.cat)
      map == MapSet(pr.map, name, r.lastID)
  IN /\ pr.pc = "insertSkill"
     /\ db' = r.db
     /\ procs' = [procs EXCEPT ![p] =
          IF ~r.ok THEN Thrown(pr, "skills.name", ThrowResponse(pr))
          ELSE IF Tail(pr.missing) # <<>>
          THEN [pr EXCEPT !.map = map, !.missing = Tail(pr.missing)]
          ELSE [pr EXCEPT !.pc = "insertLink", !.map = map, !.missing = <<>>,
                          !.ids = IdsOfNames(NamesOf(pr, pr.cat).v, map)]]
     /\ UNCHANGED <<now, supplied, result>>

\* syncApplicationSkills: INSERT OR IGNORE INTO application_skill_set, once per id
StepInsertLink(p) ==
  LET pr == procs[p]
      r == InsertLink(db, pr.id, Head(pr.ids))
  IN /\ pr.pc = "insertLink"
     /\ db' = r.db
     /\ procs' = [procs EXCEPT ![p] =
          IF ~r.ok THEN Thrown(pr, "foreign key", ThrowResponse(pr))
          ELSE IF Tail(pr.ids) # <<>> THEN [pr EXCEPT !.ids = Tail(pr.ids)]
          ELSE AfterCategory(pr)]
     /\ UNCHANGED <<now, supplied, result>>

\* the final SELECT of the row, and the handler's answer
StepReadBack(p) ==
  LET pr == procs[p]
  IN /\ pr.pc = "readBack"
     /\ procs' = [procs EXCEPT ![p] =
          IF pr.op = "update"
          THEN [pr EXCEPT !.pc = "done", !.res = UpdateResponse(getApplicationById(db, pr.id))]
          ELSE IF ReadBack(db, pr.id).ok
          THEN [pr EXCEPT !.pc = "done", !.res = Response(201, "data")]
          ELSE Thrown(pr, "row is undefined", ThrowResponse(pr))]
     /\ UNCHANGED <<db, now, supplied, result>>

\* the request is over; the next one may arrive
Return(p) ==
  /\ procs[p].pc = "done"
  /\ procs' = [procs EXCEPT ![p] = [IdleProc EXCEPT !.served = procs[p].served]]
  /\ UNCHANGED <<db, now, supplied, result>>

ConcCreateBodies ==
  {[EmptyInput EXCEPT !.companyName = Str(<<"A">>), !.skills = Str(<<"a">>)],
   [EmptyInput EXCEPT !.companyName = Str(<<"A">>), !.softSkills = Str(<<"a">>)],
   [EmptyInput EXCEPT !.companyName = Str(<<"A">>), !.skills = Str(<<"b", ",", "a">>)]}

ConcUpdateBodies ==
  {[EmptyInput EXCEPT !.skills = Str(<<"a">>)],
   [EmptyInput EXCEPT !.softSkills = Str(<<"a">>)],
   [EmptyInput EXCEPT !.status = Str("interview"), !.softSkills = Str(<<>>)]}

ConcImportBodies == {[url |-> Str(<<"u">>), status |-> Undefined]}

ConcImportEnvs ==
  {[fetch |-> "ok", model |-> "ok", text |-> <<"{", "m", "}">>,
    members |-> [EmptyInput EXCEPT !.companyName = Str(<<"A">>), !.skills = Str(<<"a">>)]],
   [fetch |-> "ok", model |-> "ok", text |-> <<"x">>, members |-> EmptyInput]}

ConcIds == 1..MaxApps

ConcCreate == \E p \in Procs : StartCreate(p, ConcCreateBodies, MaxApps)
ConcImport == \E p \in Procs : StartImport(p, ConcImportBodies, ConcImportEnvs, MaxApps)
ConcUpdate == \E p \in Procs : StartUpdate(p, ConcIds, ConcUpdateBodies)
ConcDelete == \E p \in Procs : StartDelete(p, ConcIds)
DeleteRowStep == \E p \in Procs : StepDeleteRow(p)
InsertAppStep == \E p \in Procs : StepInsertApp(p)
UpdateRowStep == \E p \in Procs : StepUpdateRow(p)
DeleteLinksStep == \E p \in Procs : StepDeleteLinks(p)
SelectStep == \E p \in Procs : StepSelect(p)
InsertSkillStep == \E p \in Procs : StepInsertSkill(p)
InsertLinkStep == \E p \in Procs : StepInsertLink(p)
ReadBackStep == \E p \in Procs : StepReadBack(p)
ReturnStep == \E p \in Procs : Return(p)

NextConc ==
  \/ ConcCreate \/ ConcImport \/ ConcUpdate \/ ConcDelete \/ DeleteRowStep
  \/ InsertAppStep \/ UpdateRowStep \/ DeleteLinksStep \/ SelectStep
  \/ InsertSkillStep \/ InsertLinkStep \/ ReadBackStep \/ ReturnStep

SpecConc == Init /\ [][NextConc]_vars

\* C2: no two skill rows have the same name.
C2_SkillNamesUnique ==
  \A s \in db.skills : \A t \in db.skills : s.name = t.name => s.id = t.id

\* two requests missed the same name on lookup, one inserted it and the
\* other's insert was turned down
C2_Witness ==
  \E p \in Procs : \E q \in Procs \ {p} :
    /\ procs[p].error = "skills.name"
    /\ procs[p].introduced \cap procs[q].introduced # {}
    /\ \E s \in db.skills : s.name \in procs[p].introduced

\* the two writes are over, their applications exist, and both looked up
\* the same name while the dictionary did not have it
BothIntroduced(p, q) ==
  /\ p # q
  /\ procs[p].pc = "done"
  /\ procs[q].pc = "done"
  /\ procs[p].id \in LiveIds(db)
  /\ procs[q].id \in LiveIds(db)
  /\ procs[p].introduced \cap procs[q].introduced # {}

\* C7: when two concurrent writes both introduce the same new skill name,
\* neither fails, and both applications are linked to the single skill row
\* of that name.
C7_RacingWritesBothSucceed ==
  \A p \in Procs : \A q \in Procs :
    BothIntroduced(p, q) =>
      /\ procs[p].error = "none"
      /\ procs[p].res.code \in {200, 201}
      /\ \A name \in procs[p].introduced \cap procs[q].introduced :
           \E s \in db.skills :
             /\ s.name = name
             /\ [application_id |-> procs[p].id, skill_id |-> s.id] \in db.application_skill_set

\* C11: the skill dictionary only grows: no statement of a create, update,
\* delete or import removes a skill row or changes its name or category.
C11_SkillsOnlyGrow ==
  [][\A s \in db.skills : s \in db'.skills]_vars

\* a delete answered 204 and left a skill row that no application links
C11_Witness ==
  /\ \E p \in Procs : procs[p].op = "delete" /\ procs[p].res.code = 204
  /\ \E s \in db.skills : \A l \in db.application_skill_set : l.skill_id # s.id

(***************************************************************************)
(* SpecFields: requests that write the columns of an application, served   *)
(* one at a time while the clock behind datetime('now') advances.          *)
(***************************************************************************)
Tick ==
  /\ now <= MaxTime
  /\ now' = now + 1
  /\ result' = [NoResult EXCEPT !.op = "tick"]
  /\ UNCHANGED <<db, supplied, procs>>

\* a request whose body is kept with its answer
CreateRecorded(bodies, maxApps) ==
  \E body \in bodies :
    /\ db.appSeq < maxApps
    /\ \E h \in {createApplicationHandler(db, body, now)} :
          /\ db' = h.db
          /\ result' = [NoResult EXCEPT !.op = "create", !.res = h.res, !.id = h.id,
                          !.ok = h.ok, !.called = h.called, !.body = body]
    /\ UNCHANGED <<now, supplied, procs>>

UpdateRecorded(ids, bodies) ==
  \E id \in ids, body \in bodies :
    /\ \E h \in {updateApplicationHandler(db, id, body, now)} :
          /\ db' = h.db
          /\ result' = [NoResult EXCEPT !.op = "update", !.res = h.res, !.id = id,
                          !.ok = h.ok, !.called = h.called, !.body = body]
    /\ UNCHANGED <<now, supplied, procs>>

\* no company, a company, a company and a required skill
FieldCreateBodies ==
  With(EmptyInput, "companyName",
       {Undefined, Str(<<"A">>)})
  \cup {[EmptyInput EXCEPT !.companyName = Str(<<"A">>), !.skills = Str(<<"a">>)]}

\* partial inputs: nothing, a status, a bad status, one skill field
FieldUpdateBodies ==
  {EmptyInput,
   [EmptyInput EXCEPT !.status = Str("interview")],
   [EmptyInput EXCEPT !.status = Str("bogus")],
   [EmptyInput EXCEPT !.softSkills = Str(<<"a">>)],
   [EmptyInput EXCEPT !.skills = Str(<<>>)]}

FieldCreate == CreateRecorded(FieldCreateBodies, MaxApps)
FieldUpdate == UpdateRecorded(AppIds, FieldUpdateBodies)

NextFields == FieldCreate \/ FieldUpdate \/ Tick

SpecFields == Init /\ [][NextFields]_vars

RowOf(d, id) == CHOOSE r \in d.application : r.id = id

\* the update just served was handed on to updateApplication for a row that existed
UpdatedExisting ==
  /\ result'.op = "update"
  /\ result'.called
  /\ result'.id \in LiveIds(db)

\* only skill fields are present in the input
SkillsOnly(body) ==
  /\ PresentFields(body) = {}
  /\ body.softSkills # Undefined \/ body.skills # Undefined

\* C12: an update of an existing application that supplies only skill
\* fields succeeds and leaves the row with updateTime equal to the time of
\* the update.
C12_SkillsOnlyRefreshesUpdateTime ==
  [][(UpdatedExisting /\ SkillsOnly(result'.body)) =>
       /\ result'.res.code = 200
       /\ RowOf(db', result'.id).update_time = now]_vars

\* the skill category an input field writes
CategoryOf(field) == IF field = "softSkills" THEN Soft ELSE Required

\* C13: a successful update changes only what its input names: a supplied
\* status is stored and updateTime becomes the time of the update, every
\* omitted column and createTime keep their values, and the links of a
\* category whose field is omitted are as before.
C13_OnlyPresentFieldsChange ==
  [][(UpdatedExisting /\ result'.res.code = 200) =>
       LET body == result'.body
           old == mapRowToApplication(RowOf(db, result'.id))
           new == mapRowToApplication(RowOf(db', result'.id))
       IN /\ body.status # Undefined =>
               new.status = body.status.v /\ new.updateTime = now
          /\ \A f \in ColumnFields \ PresentFields(body) : new[f] = old[f]
          /\ new.createTime = old.createTime
          /\ \A f \in {"softSkills", "skills"} :
               body[f] = Undefined =>
                 LinkedSkills(db', result'.id, CategoryOf(f))
                   = LinkedSkills(db, result'.id, CategoryOf(f))]_vars

\* C14: an update of an existing application with an empty input answers
\* 200, leaves the whole store as it was, updateTime and links included,
\* and returns the row as it stands.
C14_EmptyUpdateChangesNothing ==
  [][(UpdatedExisting /\ result'.body = EmptyInput) =>
       /\ result'.res.code = 200
       /\ db' = db
       /\ updateApplication(db, result'.id, EmptyInput, now).row
            = mapRowToApplication(RowOf(db, result'.id))]_vars

\* an empty update was answered 200 for a linked application last written
\* in an earlier second
C14_Witness ==
  /\ result.op = "update"
  /\ result.body = EmptyInput
  /\ result.res.code = 200
  /\ RowOf(db, result.id).update_time < now
  /\ LinksOf(db, result.id) # {}

\* C15: an update of an id that has no row returns null from
\* updateApplication and is answered 404, whatever the input holds.
C15_MissingIdIsNotFound ==
  [][(result'.op = "update" /\ result'.called /\ result'.id \notin LiveIds(db)) =>
       /\ result'.res.code = 404
       /\ \E u \in {updateApplication(db, result'.id, result'.body, now)} :
            u.ok /\ u.row = Null]_vars

\* C19: an update, whatever it answers, keeps every application's id and
\* createTime, and leaves the row and the links of every application other
\* than the one it names exactly as they were.
C19_IdAndCreateTimeFixed ==
  [][result'.op = "update" =>
       /\ LiveIds(db') = LiveIds(db)
       /\ \A r \in db.application :
            /\ RowOf(db', r.id).create_time = r.create_time
            /\ r.id # result'.id =>
                 /\ RowOf(db', r.id) = r
                 /\ LinksOf(db', r.id) = LinksOf(db, r.id)]_vars

\* a column of one of two applications was rewritten in a second later
\* than its creation
C19_Witness ==
  /\ result.op = "update"
  /\ result.res.code = 200
  /\ PresentFields(result.body) # {}
  /\ Cardinality(db.application) >= 2
  /\ RowOf(db, result.id).create_time < RowOf(db, result.id).update_time

(***************************************************************************)
(* Listing.  SQLite leaves the order of rows with equal create_time open,  *)
(* so a listing is computed from one of the orders the ORDER BY allows.    *)
(***************************************************************************)
NaN == [t |-> "nan"]

IsDigit(c) == \E n \in 0..9 : DigitChar(n) = c
DigitOf(c) == CHOOSE n \in 0..9 : DigitChar(n) = c

RECURSIVE DecimalValue(_)
DecimalValue(s) ==
  IF s = <<>> THEN 0
  ELSE 10 * DecimalValue(SubSeq(s, 1, Len(s) - 1)) + DigitOf(s[Len(s)])

\* Number(text) of a non-empty text of digits and letters
ToNumber(s) == IF \A i \in DOMAIN s : IsDigit(s[i]) THEN Num(DecimalValue(s)) ELSE NaN

\* req.query.x ? Number(req.query.x) : undefined
QueryNumber(raw) == IF Falsy(raw) THEN Undefined ELSE ToNumber(raw.v)

IsFinite(x) == x.t = "number"

\* WHERE status = ?, added when query.status is truthy
Matching(d, status) ==
  IF status = Undefined \/ status.v = "" THEN d.application
  ELSE {r \in d.application : r.status = status.v}

\* ORDER BY create_time DESC: every arrangement with no older row before a newer one
Orders(rows) ==
  {s \in [1..Cardinality(rows) -> rows] :
     /\ \A i \in DOMAIN s : \A j \in DOMAIN s : i # j => s[i] # s[j]
     /\ \A i \in DOMAIN s : \A j \in DOMAIN s :
          i < j => s[i].create_time >= s[j].create_time}

\* LIMIT ? OFFSET ? applied to the ordered rows
Window(order, limit, offset) ==
  LET skip == IF offset = Undefined THEN 0 ELSE offset.v
      rest == IF skip >= Len(order) THEN <<>> ELSE SubSeq(order, skip + 1, Len(order))
  IN IF limit = Undefined \/ limit.v >= Len(rest) THEN rest
     ELSE SubSeq(rest, 1, limit.v)

\* the SELECT that listApplications assembles is a statement SQLite accepts:
\* an OFFSET needs a LIMIT before it
SelectParses(query) == query.offset = Undefined \/ query.limit # Undefined

MapRows(rows) == [i \in DOMAIN rows |-> mapRowToApplication(rows[i])]

listApplications(d, query, order) ==
  IF ~SelectParses(query) THEN [ok |-> FALSE, rows |-> <<>>]
  ELSE [ok |-> TRUE, rows |-> MapRows(Window(order, query.limit, query.offset))]

\* the checks of listApplicationsHandler that answer 400
ListQueryRejected(raw) ==
  \/ raw.status # Undefined /\ ~isValidStatus(raw.status)
  \/ QueryNumber(raw.limit) # Undefined /\ ~IsFinite(QueryNumber(raw.limit))
  \/ QueryNumber(raw.offset) # Undefined /\ ~IsFinite(QueryNumber(raw.offset))

ParsedQuery(raw) ==
  [status |-> raw.status, limit |-> QueryNumber(raw.limit),
   offset |-> QueryNumber(raw.offset)]

\* the applications as data, or no response when listApplications threw
ListAnswer(l) ==
  [res |-> IF l.ok THEN Response(200, "data") ELSE NoResponse,
   data |-> l.rows, called |-> TRUE]

listApplicationsHandler(d, raw, order) ==
  IF ListQueryRejected(raw)
  THEN [res |-> Response(400, "error"), data |-> <<>>, called |-> FALSE]
  ELSE ListAnswer(listApplications(d, ParsedQuery(raw), order))

ListRequest(raws) ==
  \E raw \in raws :
    \E order \in Orders(Matching(db, raw.status)) :
      /\ \E h \in {listApplicationsHandler(db, raw, order)} :
            result' = [NoResult EXCEPT !.op = "list", !.res = h.res, !.called = h.called,
                         !.ok = h.res.code = 200,
                         !.query = IF h.called THEN ParsedQuery(raw) ELSE EmptyQuery,
                         !.listed = h.data]
      /\ UNCHANGED <<db, now, supplied, procs>>

(***************************************************************************)
(* SpecList: applications created in different seconds and listed.         *)
(***************************************************************************)
ListCreateBodies ==
  With([EmptyInput EXCEPT !.companyName = Str(<<"A">>)], "status",
       {Undefined, Str("interview")})

\* req.query: texts as they arrive, or absent
ListQueries ==
  {[status |-> st, limit |-> l, offset |-> o] :
     st \in {Undefined, Str("interview"), Str("bogus")},
     l \in {Undefined, Str(<<>>), Str(<<"0">>), Str(<<"1">>), Str(<<"2">>), Str(<<"x">>)},
     o \in {Undefined, Str(<<"0">>), Str(<<"1">>), Str(<<"x">>)}}

ListCreate == CreateRecorded(ListCreateBodies, MaxApps)
List == ListRequest(ListQueries)

NextList == ListCreate \/ List \/ Tick

SpecList == Init /\ [][NextList]_vars

\* C16: for every filter, listApplications succeeds and returns the rows
\* whose status equals the filter status (all rows without one), newest
\* createTime first, without the first `offset` rows of that order and cut
\* to at most `limit` rows.
C16_ListReturnsWindow ==
  [][(result'.op = "list" /\ result'.called) =>
       /\ result'.res.code = 200
       /\ \E order \in Orders(Matching(db, result'.query.status)) :
            result'.listed
              = MapRows(Window(order, result'.query.limit, result'.query.offset))]_vars

(***************************************************************************)
(* SpecCompany: requests that write the company name.                      *)
(***************************************************************************)
\* absent, null, a number, empty, blank, padded, plain
CompanyNames ==
  {Undefined, Null, Num(42), Str(<<>>), Str(<<" ">>), Str(<<" ", "A">>), Str(<<"A">>)}

CompanyCreateBodies == With(EmptyInput, "companyName", CompanyNames)
CompanyUpdateBodies == With(EmptyInput, "companyName", {Str(<<>>), Str(<<"B">>)})

CompanyCreate == CreateRecorded(CompanyCreateBodies, MaxApps)
CompanyUpdate == UpdateRecorded(AppIds, CompanyUpdateBodies)
CompanyDelete == DeleteRequest(AppIds, FALSE)

NextCompany == CompanyCreate \/ CompanyUpdate \/ CompanyDelete

SpecCompany == Init /\ [][NextCompany]_vars

\* not a string, or nothing left after trimming
Blank(x) == ~IsString(x) \/ Trim(x.v) = <<>>

\* C17: a create whose companyName is absent, not a string or empty after
\* trimming is answered 400 and inserts nothing, and after every request
\* each stored application has a companyName that is non-empty after
\* trimming.
C17_CompanyNameRequired ==
  [][/\ (result'.op = "create" /\ Blank(result'.body.companyName)) =>
          (result'.res.code = 400 /\ db' = db)
     /\ \A r \in db'.application : ~Blank(r.company_name)]_vars

\* the stages importApplicationFromLink can fail at
FailingStages == {"fetch", "model", "parse", "incomplete", "store"}

\* C18: an import without a string url, or with a status outside the four
\* values, is answered 400 before the pipeline starts; any other import is
\* answered 201 when the pipeline succeeded, and when it failed, at
\* whatever stage, 500 with the one text "Failed to import application".
C18_ImportAnswers ==
  [][result'.op = "import" =>
       LET url == result'.url
           status == result'.requested
           invalid == \/ url = Undefined \/ url = Null \/ ~IsString(url) \/ url.v = <<>>
                      \/ status # Undefined /\ (~IsString(status) \/ status.v \notin ValidStatus)
       IN /\ invalid =>
               /\ result'.res.code = 400
               /\ result'.stage = "validation"
               /\ db' = db
          /\ ~invalid =>
               \/ /\ result'.stage = "done"
                  /\ result'.res = Response(201, "data")
                  /\ result'.id \in LiveIds(db') \ LiveIds(db)
               \/ /\ result'.stage \in FailingStages
                  /\ result'.res = Response(500, "error")
                  /\ result'.message = "Failed to import application"]_vars

\* an import that reached the store and failed there was answered 500
C18_Witness ==
  /\ result.op = "import"
  /\ result.stage = "store"
  /\ result.res.code = 500
  /\ result.message = "Failed to import application"

(***************************************************************************)
(* geminiPing.  The response object is modelled by the calls made on it:   *)
(* the arguments of res.status and the bodies handed to res.json.          *)
(***************************************************************************)
JsonData(text) == [data |-> [text |-> Str(text)], error |-> Undefined]
JsonError(message) == [data |-> Undefined, error |-> Str(message)]

\* getGeminiModel returned, generateContent resolved and response.text() returned
PingSucceeds(env) == env.model = "ok" /\ env.call = "ok" /\ env.read = "ok"

\* geminiPing with its try block and no catch
geminiPingWithoutCatch(env) ==
  IF PingSucceeds(env)
  THEN [statusCalls |-> <<>>, jsonCalls |-> <<JsonData(env.text)>>]
  ELSE [statusCalls |-> <<>>, jsonCalls |-> <<>>]

geminiPing(env) ==
  IF PingSucceeds(env)
  THEN [statusCalls |-> <<>>, jsonCalls |-> <<JsonData(env.text)>>]
  ELSE [statusCalls |-> <<500>>, jsonCalls |-> <<JsonError("Gemini request failed")>>]

\* every text with all three steps succeeding, and one failure at each step
PingEnvs(texts) ==
  {[model |-> "ok", call |-> "ok", read |-> "ok", text |-> t] : t \in texts}
  \cup {[model |-> f[1], call |-> f[2], read |-> f[3], text |-> <<>>] :
          f \in {<<"fail", "ok", "ok">>, <<"ok", "fail", "ok">>, <<"ok", "ok", "fail">>}}

PingRequest(envs) ==
  \E env \in envs :
    /\ \E h \in {geminiPing(env)} :
          result' = [NoResult EXCEPT
                       !.op = "ping",
                       !.res = IF h.jsonCalls = <<>> THEN NoResponse
                               ELSE IF h.statusCalls = <<>> THEN Response(200, "data")
                               ELSE Response(h.statusCalls[Len(h.statusCalls)], "error"),
                       !.ping = [env |-> env, statusCalls |-> h.statusCalls,
                                 jsonCalls |-> h.jsonCalls]]
    /\ UNCHANGED <<db, now, supplied, procs>>

(***************************************************************************)
(* SpecPing: the ping route next to requests that write applications.      *)
(***************************************************************************)
Ping == PingRequest(PingEnvs(ImportTexts))

NextPing == StatusCreate \/ ImportDelete \/ Ping

SpecPing == Init /\ [][NextPing]_vars

\* C20: a ping makes exactly one res.json call: with the model obtained,
\* the call resolved and its text read, the body is {data: {text}} with
\* that text and res.status is never called; otherwise res.status(500) is
\* called and the body is {error: "Gemini request failed"}.
C20_PingAnswersOnce ==
  [][result'.op = "ping" =>
       LET p == result'.ping
       IN /\ Len(p.jsonCalls) = 1
          /\ (p.env.model = "ok" /\ p.env.call = "ok" /\ p.env.read = "ok") =>
               /\ p.statusCalls = <<>>
               /\ p.jsonCalls[1].data = [text |-> Str(p.env.text)]
               /\ p.jsonCalls[1].error = Undefined
          /\ (p.env.model = "fail" \/ p.env.call = "fail" \/ p.env.read = "fail") =>
               /\ p.statusCalls = <<500>>
               /\ p.jsonCalls[1].data = Undefined
               /\ p.jsonCalls[1].error = Str("Gemini request failed")]_vars

\* a ping whose model call was rejected was answered 500
C20_Witness ==
  /\ result.op = "ping"
  /\ result.ping.env.call = "fail"
  /\ result.res.code = 500

(***************************************************************************)
(* SpecNormalize: normalizeJobData applied to parse results, and to its    *)
(* own output.                                                             *)
(***************************************************************************)
\* x?.trim()
OptionalTrim(x) == IF x = Undefined \/ x = Null THEN Undefined ELSE Str(Trim(x.v))

\* x?.trimStart()
OptionalTrimStart(x) == IF x = Undefined \/ x = Null THEN Undefined ELSE Str(TrimLeft(x.v))

\* normalizeJobData removing leading whitespace only
normalizeJobDataTrimStart(data) ==
  [company |-> OptionalTrimStart(data.company), title |-> OptionalTrimStart(data.title)]

normalizeJobData(data) ==
  [company |-> OptionalTrim(data.company), title |-> OptionalTrim(data.title)]

\* JobParseResult: each field absent or a text of spaces and letters
JobTexts == {Undefined} \cup {Str(s) : s \in SeqsUpTo({" ", "a"}, MaxSkillLen)}
JobData == {[company |-> c, title |-> t] : c \in JobTexts, t \in JobTexts}

NormalizeCall(data) ==
  /\ \E out \in {normalizeJobData(data)} :
        result' = [NoResult EXCEPT !.op = "normalize", !.arg = data, !.out = out]
  /\ UNCHANGED <<db, now, supplied, procs>>

Normalize == \E data \in JobData : NormalizeCall(data)

\* the output of the last call is normalized again
NormalizeAgain == result.op = "normalize" /\ NormalizeCall(result.out)

NextNormalize == Normalize \/ NormalizeAgain

SpecNormalize == Init /\ [][NextNormalize]_vars

\* `long` is `short` with spaces, and nothing else, added at its ends
Padded(long, short) ==
  \E i \in 0..Len(long) :
    /\ i + Len(short) <= Len(long)
    /\ SubSeq(long, i + 1, i + Len(short)) = short
    /\ \A k \in (1..i) \cup ((i + Len(short) + 1)..Len(long)) : long[k] = " "

\* C21: normalizeJobData returns each present field without its leading
\* and trailing whitespace and undefined for an absent field, and applied
\* to its own result it returns that result.
C21_NormalizeTrimsIdempotent ==
  result.op = "normalize" =>
    /\ \A f \in {"company", "title"} :
         IF result.arg[f] = Undefined THEN result.out[f] = Undefined
         ELSE /\ IsString(result.out[f])
              /\ Padded(result.arg[f].v, result.out[f].v)
              /\ result.out[f].v = <<>>
                   \/ (Head(result.out[f].v) # " "
                       /\ result.out[f].v[Len(result.out[f].v)] # " ")
    /\ normalizeJobData(result.out) = result.out

\* a company padded on both sides was trimmed to a text, the title absent
C21_Witness ==
  /\ result.op = "normalize"
  /\ result.arg.company = Str(<<" ", "a", " ">>)
  /\ result.out.company = Str(<<"a">>)
  /\ result.arg.title = Undefined

\* C22: the skill lookup matches name and category: every name a
\* successful write supplied for a category has a skill row of that
\* category, so a text supplied as soft skill and as required skill has
\* two rows.
C22_SkillRowPerCategory ==
  \A id \in DOMAIN supplied : \A c \in Categories : \A name \in supplied[id][c] :
    \E s \in db.skills : s.name = name /\ s.is_soft_skill = c

\* C23: the extraction mapping coerces by type: a decoded companyName that
\* is absent or not a string counts as the empty string, so the import
\* fails and persists nothing; an import that succeeds stores the decoded
\* company name, and the status "applied" when none was requested or
\* decoded.
C23_ExtractionCoercesByType ==
  [][(result'.op = "import" /\ result'.extracted # Null) =>
       /\ ~IsString(result'.extracted.companyName) =>
            /\ ~result'.ok
            /\ db'.application = db.application
       /\ result'.ok =>
            \E r \in db'.application \ db.application :
              /\ r.company_name = result'.extracted.companyName
              /\ (result'.requested = Undefined
                   /\ result'.extracted.status \in {Undefined, Null}) =>
                    r.status = "applied"]_vars

(***************************************************************************)
(* SpecParse: parseGeminiJson applied to raw texts.                        *)
(***************************************************************************)
RawTexts == SeqsUpTo(TextTokens, MaxRawLen)
ParseObjects == With(EmptyInput, "companyName", {Null, Str(<<"A">>)})

\* the store as Init leaves it, with one raw text and the object its
\* member list spells waiting to be parsed
InitParse ==
  /\ db = EmptyDb
  /\ now = 1
  /\ supplied = <<>>
  /\ procs = [p \in Procs |-> IdleProc]
  /\ result \in {[NoResult EXCEPT !.op = "raw", !.arg = [text |-> t, members |-> m]] :
                   t \in RawTexts, m \in ParseObjects}

Parse ==
  /\ result.op = "raw"
  /\ \E out \in {parseGeminiJson(result.arg.text, result.arg.members)} :
        result' = [result EXCEPT !.op = "parse", !.out = out]
  /\ UNCHANGED <<db, now, supplied, procs>>

NextParse == Parse

SpecParse == InitParse /\ [][NextParse]_vars

\* C24: parseGeminiJson decodes the text from the first "{" to the last
\* "}" inclusive, whatever stands before and after; without a "{", without
\* a "}", with the last "}" before the first "{", or with a substring that
\* does not decode, it fails and returns no value.
C24_ParsesFirstToLastBrace ==
  result.op = "parse" =>
    LET text == result.arg.text
        opens == {i \in 1..Len(text) : text[i] = "{"}
        closes == {i \in 1..Len(text) : text[i] = "}"}
        failed == ~result.out.ok /\ result.out.value = Null
    IN IF opens = {} \/ closes = {} THEN failed
       ELSE LET first == CHOOSE i \in opens : \A j \in opens : i <= j
                last == CHOOSE i \in closes : \A j \in closes : i >= j
            IN IF last < first THEN failed
               ELSE IF JsonParse(SubSeq(text, first, last), result.arg.members).ok
                    THEN result.out
                           = JsonParse(SubSeq(text, first, last), result.arg.members)
                    ELSE failed

\* an object with text before and after it was decoded
C24_Witness ==
  /\ result.op = "parse"
  /\ result.arg.text = <<"x", "{", "m", "}", "x">>
  /\ result.out.ok
  /\ result.out.value = result.arg.members

\* C25: createApplication, called by the create or the import handler, is
\* all or nothing: once a call has failed, the application row it
\* inserted, if it got that far, is not in the store and has no links.
C25_FailedCreateLeavesNothing ==
  \A p \in Procs :
    (procs[p].pc = "done" /\ procs[p].op \in {"create", "import"}
       /\ procs[p].error # "none") =>
      /\ procs[p].id \notin LiveIds(db)
      /\ LinksOf(db, procs[p].id) = {}

(***************************************************************************)
(* SpecRace: updates of the required skills of one existing application,   *)
(* their statements interleaved.                                           *)
(***************************************************************************)
\* the store after POST /applications {companyName: "A"}
InitRace ==
  /\ db = createApplication(EmptyDb, [EmptyInput EXCEPT !.companyName = Str(<<"A">>)], 1).db
  /\ now = 1
  /\ supplied = <<>>
  /\ result = NoResult
  /\ procs = [p \in Procs |-> IdleProc]

RaceBodies ==
  {[EmptyInput EXCEPT !.skills = Str(<<"a">>)],
   [EmptyInput EXCEPT !.skills = Str(<<"b">>)]}

RaceUpdate == \E p \in Procs : StartUpdate(p, {1}, RaceBodies)

NextRace ==
  \/ RaceUpdate \/ DeleteLinksStep \/ SelectStep \/ InsertSkillStep
  \/ InsertLinkStep \/ ReadBackStep \/ ReturnStep

SpecRace == InitRace /\ [][NextRace]_vars

\* two updates of the same application are over, neither failed, and both
\* gave names for category c
BothUpdated(p, q, c) ==
  /\ p # q
  /\ procs[p].pc = "done" /\ procs[q].pc = "done"
  /\ procs[p].op = "update" /\ procs[q].op = "update"
  /\ procs[p].id = procs[q].id
  /\ procs[p].error = "none" /\ procs[q].error = "none"
  /\ NamesOf(procs[p], c) # Undefined /\ NamesOf(procs[q], c) # Undefined

\* C26: when two updates of one application that both give names for a
\* category have completed, the names linked in that category are the
\* names of one of the two updates.
C26_RacingUpdatesOneWins ==
  \A p \in Procs : \A q \in Procs : \A c \in Categories :
    BothUpdated(p, q, c) =>
      LinkedNames(db, procs[p].id, c)
        \in {SeqRange(NamesOf(procs[p], c).v), SeqRange(NamesOf(procs[q], c).v)}

\* C27: an update of an id that has no application row leaves the store as
\* it was: no skill row and no link row is added, whatever the input holds.
C27_MissingIdLeavesStore ==
  [][(result'.op = "update" /\ result'.called /\ result'.id \notin LiveIds(db)) =>
       db' = db]_vars

(***************************************************************************)
(* SpecConcLive: SpecConc with the event loop's scheduling.  A statement   *)
(* that was awaited settles and its continuation runs, so every pending    *)
(* step of a request is taken eventually.  Requests need not arrive.       *)
(***************************************************************************)
Advance(p) ==
  \/ StepDeleteRow(p) \/ StepInsertApp(p) \/ StepUpdateRow(p)
  \/ StepDeleteLinks(p) \/ StepSelect(p) \/ StepInsertSkill(p)
  \/ StepInsertLink(p) \/ StepReadBack(p) \/ Return(p)

SpecConcLive == SpecConc /\ \A p \in Procs : WF_vars(Advance(p))

\* the handler's promise has settled and res.status(..).json(..) or .send() ran
Responded(p) == procs[p].pc = "done" /\ procs[p].res # NoResponse

\* C28: every invocation of an application handler eventually sends a
\* response, also when a store statement it awaits fails.
C28_EveryRequestAnswered ==
  \A p \in Procs : (procs[p].pc # "idle") ~> Responded(p)

(***************************************************************************)
(* SpecInitDb: initDatabase called by several callers.  Every await is a   *)
(* point where another caller may run.  The module variable dbInstance,    *)
(* the number of open() calls and the exec() calls started and finished    *)
(* are kept in result.arg; a caller's handle is kept in its id.  The file  *)
(* system and the driver are taken to succeed.                             *)
(***************************************************************************)
Callers == 1..MaxCallers

\* let dbInstance = null, nothing opened, no schema script run
NoInstance == [dbInstance |-> 0, opened |-> 0, started |-> 0, finished |-> 0]

InitInitDb ==
  /\ db = EmptyDb
  /\ now = 1
  /\ supplied = <<>>
  /\ result = [NoResult EXCEPT !.op = "initDatabase", !.arg = NoInstance]
  /\ procs = [p \in Callers |-> IdleProc]

\* if (dbInstance) return dbInstance; otherwise await fs.mkdir(..)
CallInitDatabase(p) ==
  /\ procs[p].pc = "idle"
  /\ procs[p].served < MaxServed
  /\ procs' = [procs EXCEPT ![p] =
        IF result.arg.dbInstance # 0
        THEN [Fresh(p) EXCEPT !.op = "initDatabase", !.pc = "done",
                              !.id = result.arg.dbInstance]
        ELSE [Fresh(p) EXCEPT !.op = "initDatabase", !.pc = "mkdir"]]
  /\ UNCHANGED <<db, now, supplied, result>>

\* mkdir has settled: open({filename, driver}) is called and awaited
AfterMkdir(p) ==
  /\ procs[p].pc = "mkdir"
  /\ result' = [result EXCEPT !.arg.opened = @ + 1]
  /\ procs' = [procs EXCEPT ![p].pc = "open", ![p].id = result.arg.opened + 1]
  /\ UNCHANGED <<db, now, supplied>>

\* open has settled: dbInstance = <the handle>; fs.readFile(..) is awaited
AfterOpen(p) ==
  /\ procs[p].pc = "open"
  /\ result' = [result EXCEPT !.arg.dbInstance = procs[p].id]
  /\ procs' = [procs EXCEPT ![p].pc = "readFile"]
  /\ UNCHANGED <<db, now, supplied>>

\* readFile has settled: dbInstance.exec(schemaSql) is called and awaited
AfterReadFile(p) ==
  /\ procs[p].pc = "readFile"
  /\ result' = [result EXCEPT !.arg.started = @ + 1]
  /\ procs' = [procs EXCEPT ![p].pc = "exec"]
  /\ UNCHANGED <<db, now, supplied>>

\* exec has settled: return dbInstance
AfterExec(p) ==
  /\ procs[p].pc = "exec"
  /\ result' = [result EXCEPT !.arg.finished = @ + 1]
  /\ procs' = [procs EXCEPT ![p].pc = "done", ![p].id = result.arg.dbInstance]
  /\ UNCHANGED <<db, now, supplied>>

InitCall == \E p \in Callers : CallInitDatabase(p)
MkdirDone == \E p \in Callers : AfterMkdir(p)
OpenDone == \E p \in Callers : AfterOpen(p)
ReadFileDone == \E p \in Callers : AfterReadFile(p)
ExecDone == \E p \in Callers : AfterExec(p)
InitReturn == \E p \in Callers : Return(p)

NextInitDb ==
  \/ InitCall \/ MkdirDone \/ OpenDone \/ ReadFileDone \/ ExecDone \/ InitReturn

SpecInitDb == InitInitDb /\ [][NextInitDb]_vars

\* C29: under any interleaving of calls of initDatabase the database is
\* opened at most once, the schema script is run at most once, and a call
\* returns the handle only after a run of the schema script has finished.
C29_InitializesOnce ==
  [][/\ result'.arg.opened <= 1
     /\ result'.arg.started <= 1
     /\ \A p \in Callers :
          (procs[p].pc # "done" /\ procs'[p].pc = "done") =>
            result'.arg.finished >= 1]_vars

(***************************************************************************)
(* SpecDetail: the detail effect of the page.  result.arg holds the state  *)
(* of the component: selectedApplication and applicationDetail by the id   *)
(* of their application (0 for null), detailError, detailLoading, and the  *)
(* requests sent, each with the isActive flag of the effect run that sent  *)
(* it.  A change of selectedApplication commits and runs the effect        *)
(* before the next event is handled.                                       *)
(***************************************************************************)
NoSelection ==
  [selectedApplication |-> 0, applicationDetail |-> 0, detailError |-> "null",
   detailLoading |-> FALSE, requests |-> <<>>]

InitDetail ==
  /\ db = EmptyDb
  /\ now = 1
  /\ supplied = <<>>
  /\ result = [NoResult EXCEPT !.op = "detail", !.arg = NoSelection]
  /\ procs = [p \in Procs |-> IdleProc]

\* return () => { isActive = false; } of the effect run before
Cleanup(requests) == [i \in DOMAIN requests |-> [requests[i] EXCEPT !.isActive = FALSE]]

\* the effect, run after selectedApplication became `selected`
DetailEffect(ui, selected) ==
  IF selected = 0
  THEN [ui EXCEPT !.selectedApplication = 0, !.applicationDetail = 0,
                  !.detailError = "null", !.detailLoading = FALSE,
                  !.requests = Cleanup(ui.requests)]
  ELSE [ui EXCEPT !.selectedApplication = selected,
                  !.detailLoading = TRUE, !.detailError = "null",
                  !.requests = Append(Cleanup(ui.requests),
                                      [id |-> selected, isActive |-> TRUE, pending |-> TRUE])]

\* .then / .catch / .finally of request i, settled with `outcome`
DetailSettled(ui, i, outcome) ==
  LET sent == [ui EXCEPT !.requests[i].pending = FALSE]
  IN IF ~ui.requests[i].isActive THEN sent
     ELSE IF outcome = "data"
       THEN [sent EXCEPT !.applicationDetail = ui.requests[i].id, !.detailLoading = FALSE]
     ELSE IF outcome = "no data"
       THEN [sent EXCEPT !.applicationDetail = 0, !.detailLoading = FALSE]
     ELSE [sent EXCEPT !.detailError = "message", !.applicationDetail = 0,
                       !.detailLoading = FALSE]

\* onClick={() => setSelectedApplication(app)}; the same object is no change
ViewApplication ==
  \E a \in 1..MaxApps :
    /\ a # result.arg.selectedApplication
    /\ Len(result.arg.requests) < MaxRequests
    /\ result' = [result EXCEPT !.arg = DetailEffect(result.arg, a)]
    /\ UNCHANGED <<db, now, supplied, procs>>

\* onClick={() => setSelectedApplication(null)}
CloseDetail ==
  /\ result.arg.selectedApplication # 0
  /\ result' = [result EXCEPT !.arg = DetailEffect(result.arg, 0)]
  /\ UNCHANGED <<db, now, supplied, procs>>

\* handleStatusChange after its PUT: the selected application is replaced
\* by the updated object, which runs the effect again
StatusChanged ==
  /\ result.arg.selectedApplication # 0
  /\ Len(result.arg.requests) < MaxRequests
  /\ result' = [result EXCEPT !.arg = DetailEffect(result.arg, result.arg.selectedApplication)]
  /\ UNCHANGED <<db, now, supplied, procs>>

DetailResponse ==
  \E i \in DOMAIN result.arg.requests, outcome \in {"data", "no data", "error"} :
    /\ result.arg.requests[i].pending
    /\ result' = [result EXCEPT !.arg = DetailSettled(result.arg, i, outcome)]
    /\ UNCHANGED <<db, now, supplied, procs>>

NextDetail == ViewApplication \/ CloseDetail \/ StatusChanged \/ DetailResponse

SpecDetail == InitDetail /\ [][NextDetail]_vars

\* what the detail panel is drawn from
Shown(ui) == <<ui.applicationDetail, ui.detailError, ui.detailLoading>>

\* the detail held is the one of the selected application
DetailOfSelected ==
  result.arg.applicationDetail # 0 =>
    result.arg.applicationDetail = result.arg.selectedApplication

\* a response to a request whose effect run was cleaned up changes nothing shown
LateResponseIgnored ==
  \A i \in DOMAIN result.arg.requests :
    (/\ i \in DOMAIN result'.arg.requests
     /\ result.arg.requests[i].pending /\ ~result'.arg.requests[i].pending
     /\ ~result.arg.requests[i].isActive) =>
       Shown(result'.arg) = Shown(result.arg)

\* clearing the selection resets the detail, the error and the loading flag
ClearResets ==
  (result.arg.selectedApplication # 0 /\ result'.arg.selectedApplication = 0) =>
    Shown(result'.arg) = <<0, "null", FALSE>>

\* C30: the detail shown belongs to the selected application; the late
\* response of a request sent for an earlier selection sets none of
\* applicationDetail, detailError and detailLoading; clearing the
\* selection resets all three.
C30_DetailFollowsSelection ==
  []DetailOfSelected /\ [][LateResponseIgnored /\ ClearResets]_vars

====
